---- MODULE Spec2Model ----
(***************************************************************************)
(* Model of the Expo / React Native storefront demo: App.tsx builds one    *)
(* Apollo client at module load and renders a header plus <Products />;    *)
(* Products.tsx asks useQuery for one fixed query and renders either the   *)
(* loading text or a two-column FlatList of the returned edges.            *)
(*                                                                         *)
(* The repository calls into @apollo/client and React.  Their documented   *)
(* defaults are what the calls at App.tsx:7-10 and Products.tsx:31 do:     *)
(*   - useQuery with no options: fetchPolicy cache-first, errorPolicy      *)
(*     none; a result found in the client's cache is returned with         *)
(*     loading = false and nothing is sent; otherwise one request is sent  *)
(*     and loading = true until it settles; on an error the hook returns   *)
(*     loading = false, data = undefined;                                  *)
(*   - an exception thrown while rendering, with no error boundary in the  *)
(*     tree, makes React tear the whole tree down.                         *)
(***************************************************************************)
EXTENDS Integers, Sequences, FiniteSets, TLC

\* ---------------------------------------------------------------- bounds
MaxEdges == 2        \* longest response modelled (the query asks for 10)
NumIds == 3          \* distinct product ids the server may return
MaxMounts == 2       \* mounts of the component tree per process
MaxRenders == 2      \* parent re-renders per process

\* ----------------------------------------------------- program constants
PageSize == 10
NumColumns == 2
ImageSize == 150

Endpoint == "https://demo.saleor.io/graphql/"
Channel == "default-channel"
PriceText == "$4.50"
LoadingText == "Loading"
ListTitle == "Products"
HeaderText == "React Native Demo Home Page"
HeaderColor == "blue"

VARIABLES
    phase,          \* "start" | "loaded" | "mounted" | "unmounted" | "crashed"
    constructed,    \* every ApolloClient ever constructed, in order
    client,         \* the module constant `client` (0 before module load)
    cache,          \* contents of the client's InMemoryCache
    result,         \* what useQuery returns to the mounted Products
    inflight,       \* the mounted Products' request has not settled yet
    requests,       \* every request sent over the network, in order
    reqThisMount,   \* requests sent by the current (or last) mount
    missAtMount,    \* the current (or last) mount began with a cache miss
    view,           \* what is on screen: <<>> or <<the App tree>>
    mounts,         \* mounts so far
    renders,        \* parent re-renders so far
    log             \* the events of the run, in order

vars == <<phase, constructed, client, cache, result, inflight, requests,
          reqThisMount, missAtMount, view, mounts, renders, log>>

\* ------------------------------------------------------------------ data
\* Product ids are opaque strings, unique per product; names are not unique.
Ids == {ToString(k) : k \in 1..NumIds}
Names == {"Apple Juice", "Banana Juice"}

Node(i, n) ==
    [id |-> i, name |-> n, description |-> "d",
     thumbnail |-> [url |-> "https://img/" \o i]]

Edge(i, n) == [node |-> Node(i, n)]

Edges == {Edge(i, n) : i \in Ids, n \in Names}

Min(a, b) == IF a < b THEN a ELSE b

\* Responses of the server to the query: at most PageSize edges, each product
\* at most once (product ids are unique); names may repeat.
Responses ==
    UNION {
        {s \in [1..k -> Edges] :
            \A i, j \in 1..k : i /= j => s[i].node.id /= s[j].node.id}
        : k \in 0..Min(MaxEdges, PageSize)}

Undefined == [defined |-> FALSE, products |-> [edges |-> <<>>]]

Data(es) == [defined |-> TRUE, products |-> [edges |-> es]]

EmptyCache == Undefined

\* ------------------------------------------------------------- App.tsx
NewApolloClient(n) == [id |-> n, uri |-> Endpoint, cache |-> EmptyCache]

Header ==
    [text |-> HeaderText, color |-> "#fff", fontSize |-> 18,
     backgroundColor |-> HeaderColor, width |-> "100%", height |-> 100]

\* Mutant: a client instance made afresh by every render of App.
ProviderClient_PerRender == client + renders + mounts

ProviderClient == client

App(products) ==
    [provider |-> ProviderClient,
     statusBar |-> "auto",
     header |-> <<Header>>,
     products |-> products]

\* --------------------------------------------------------- Products.tsx
\* Mutant: the page size follows the number of mounts.
GET_PRODUCTS_PageFromState ==
    [operation |-> "query",
     name |-> "getProducts",
     first |-> PageSize + mounts,
     channel |-> Channel,
     fields |-> {"id", "name", "description", "thumbnail.url"}]

GET_PRODUCTS ==
    [operation |-> "query",
     name |-> "getProducts",
     first |-> PageSize,
     channel |-> Channel,
     fields |-> {"id", "name", "description", "thumbnail.url"}]

Request(c) == [uri |-> constructed[c].uri, query |-> GET_PRODUCTS]

\* Mutant: the cell shows the description where the name belongs.
renderItem_Description(item) ==
    [image |-> [uri |-> item.node.thumbnail.url,
                height |-> ImageSize, width |-> ImageSize],
     name |-> item.node.description,
     price |-> PriceText]

renderItem(item) ==
    [image |-> [uri |-> item.node.thumbnail.url,
                height |-> ImageSize, width |-> ImageSize],
     name |-> item.node.name,
     price |-> PriceText]

\* Mutant: the key is the product's name.
keyExtractor_Name(item) == item.node.name

keyExtractor(item) == item.node.id

\* FlatList with numColumns = n lays its cells out n to a row.
Rows(cells, n) ==
    [r \in 1..((Len(cells) + n - 1) \div n) |->
        SubSeq(cells, (r - 1) * n + 1, Min(r * n, Len(cells)))]

FlatList(es) ==
    [data |-> es,
     ListHeaderComponent |-> ListTitle,
     numColumns |-> NumColumns,
     cells |-> [i \in 1..Len(es) |-> renderItem(es[i])],
     keys |-> [i \in 1..Len(es) |-> keyExtractor(es[i])],
     rows |-> Rows([i \in 1..Len(es) |-> renderItem(es[i])], NumColumns)]

\* Mutant: the grid is rendered beside the loading text.
Products_GridWhileLoading(r) ==
    IF r.loading
    THEN [threw |-> FALSE, text |-> <<LoadingText>>,
          grid |-> <<FlatList(r.data.products.edges)>>]
    ELSE IF ~r.data.defined
         THEN [threw |-> TRUE, text |-> <<>>, grid |-> <<>>]
         ELSE [threw |-> FALSE, text |-> <<>>,
               grid |-> <<FlatList(r.data.products.edges)>>]

\* The body of Products: the loading text, or the grid over
\* data.products.edges; reading .products of an undefined data throws.
Products(r) ==
    IF r.loading
    THEN [threw |-> FALSE, text |-> <<LoadingText>>, grid |-> <<>>]
    ELSE IF ~r.data.defined
         THEN [threw |-> TRUE, text |-> <<>>, grid |-> <<>>]
         ELSE [threw |-> FALSE, text |-> <<>>,
               grid |-> <<FlatList(r.data.products.edges)>>]

\* Mutant: the cache is not consulted (every mount starts out loading).
FirstResult_NetworkOnly(c) ==
    [loading |-> TRUE, data |-> Undefined, error |-> FALSE]

\* useQuery(GET_PRODUCTS) on the first render of a mount (cache-first).
FirstResult(c) ==
    IF c.defined
    THEN [loading |-> FALSE, data |-> c, error |-> FALSE]
    ELSE [loading |-> TRUE, data |-> Undefined, error |-> FALSE]

\* The requests useQuery sends on the first render of a mount.
Dispatch(c) == IF c.defined THEN <<>> ELSE <<Request(client)>>

\* Mutant: every render of a settled query sends the request again.
Redispatch_Refetch(r) == IF r.loading THEN <<>> ELSE <<Request(client)>>

\* The requests useQuery sends on a later render of the same mount.
Redispatch(r) == <<>>

NoResult == [loading |-> FALSE, data |-> Undefined, error |-> FALSE]

RenderEvent(p) ==
    IF p.threw THEN "crash"
    ELSE IF p.grid /= <<>> THEN "renderGrid" ELSE "renderLoading"

\* What a render of the tree leaves on screen: App's output around the
\* output of Products, or nothing when Products threw (no error boundary).
Commit(p) == IF p.threw THEN <<>> ELSE <<App(p)>>

PhaseAfter(p) == IF p.threw THEN "crashed" ELSE "mounted"

\* ---------------------------------------------------------------- Init
Init ==
    /\ phase = "start"
    /\ constructed = <<>>
    /\ client = 0
    /\ cache = EmptyCache
    /\ result = NoResult
    /\ inflight = FALSE
    /\ requests = <<>>
    /\ reqThisMount = 0
    /\ missAtMount = FALSE
    /\ view = <<>>
    /\ mounts = 0
    /\ renders = 0
    /\ log = <<>>

\* ------------------------------------------------------------- actions
\* App.tsx is evaluated: `const client = new ApolloClient({...})`.
ModuleLoad ==
    /\ phase = "start"
    /\ constructed' = Append(constructed, NewApolloClient(Len(constructed) + 1))
    /\ client' = Len(constructed) + 1
    /\ cache' = NewApolloClient(Len(constructed) + 1).cache
    /\ phase' = "loaded"
    /\ log' = Append(log, "construct")
    /\ UNCHANGED <<result, inflight, requests, reqThisMount, missAtMount,
                   view, mounts, renders>>

\* React mounts the tree: App() renders, Products() renders for the first
\* time, useQuery starts the query.
Mount ==
    /\ phase \in {"loaded", "unmounted"}
    /\ mounts < MaxMounts
    /\ mounts' = mounts + 1
    /\ phase' = PhaseAfter(Products(FirstResult(cache)))
    /\ result' = FirstResult(cache)
    /\ requests' = requests \o Dispatch(cache)
    /\ reqThisMount' = Len(Dispatch(cache))
    /\ missAtMount' = ~cache.defined
    /\ inflight' = (Dispatch(cache) /= <<>>)
    /\ view' = Commit(Products(FirstResult(cache)))
    /\ log' = log \o <<"mount">>
                  \o [i \in 1..Len(Dispatch(cache)) |-> "dispatch"]
                  \o <<RenderEvent(Products(FirstResult(cache)))>>
    /\ UNCHANGED <<constructed, client, cache, renders>>

\* React re-renders App (and with it Products) with nothing changed.
Rerender ==
    /\ phase = "mounted"
    /\ renders < MaxRenders
    /\ renders' = renders + 1
    /\ requests' = requests \o Redispatch(result)
    /\ reqThisMount' = reqThisMount + Len(Redispatch(result))
    /\ phase' = PhaseAfter(Products(result))
    /\ view' = Commit(Products(result))
    /\ log' = Append(log, RenderEvent(Products(result)))
    /\ UNCHANGED <<constructed, client, cache, result, inflight,
                   missAtMount, mounts>>

\* The response arrives: the client caches it, useQuery returns it and
\* Products re-renders.
DataArrival(es) ==
    /\ phase = "mounted"
    /\ inflight
    /\ inflight' = FALSE
    /\ cache' = Data(es)
    /\ result' = [loading |-> FALSE, data |-> Data(es), error |-> FALSE]
    /\ phase' = PhaseAfter(Products(result'))
    /\ view' = Commit(Products(result'))
    /\ log' = log \o <<"arrive", RenderEvent(Products(result'))>>
    /\ UNCHANGED <<constructed, client, requests, reqThisMount,
                   missAtMount, mounts, renders>>

\* The request fails (network failure or malformed response): useQuery
\* returns loading = false with no data, Products re-renders.
Failure ==
    /\ phase = "mounted"
    /\ inflight
    /\ inflight' = FALSE
    /\ result' = [loading |-> FALSE, data |-> Undefined, error |-> TRUE]
    /\ phase' = PhaseAfter(Products(result'))
    /\ view' = Commit(Products(result'))
    /\ log' = log \o <<"fail", RenderEvent(Products(result'))>>
    /\ UNCHANGED <<constructed, client, cache, requests, reqThisMount,
                   missAtMount, mounts, renders>>

\* React unmounts the tree; a request still in flight is abandoned.
Unmount ==
    /\ phase = "mounted"
    /\ phase' = "unmounted"
    /\ view' = <<>>
    /\ inflight' = FALSE
    /\ result' = NoResult
    /\ log' = Append(log, "unmount")
    /\ UNCHANGED <<constructed, client, cache, requests, reqThisMount,
                   missAtMount, mounts, renders>>

Next ==
    \/ ModuleLoad
    \/ Mount
    \/ Rerender
    \/ \E es \in Responses : DataArrival(es)
    \/ Failure
    \/ Unmount

Spec == Init /\ [][Next]_vars

\* ---------------------------------------------------------------- claims
Shown == view /= <<>>

ShowsLoading == Shown /\ LoadingText \in {view[1].products.text[i] :
                                            i \in 1..Len(view[1].products.text)}

ShowsGrid == Shown /\ view[1].products.grid /= <<>>

Resolved == phase = "mounted" /\ ~result.loading /\ result.data.defined

Grid == view[1].products.grid[1]

ResultEdges == result.data.products.edges

\* C1: while the query result is pending (loading = true) the rendered
\* Products holds the loading text and no grid, and no rendered state holds
\* the loading text and the grid together.
C1_PendingShowsLoadingOnly ==
    /\ (phase = "mounted" /\ result.loading) => (ShowsLoading /\ ~ShowsGrid)
    /\ ~(ShowsLoading /\ ShowsGrid)

C1_Witness == phase = "mounted" /\ result.loading /\ renders = 1 /\ ShowsLoading

\* C2: for a resolved result with N edges the grid holds exactly N cells in
\* the order of the edges, each with that record's name and the price text
\* "$4.50", and is laid out in exactly two columns.
C2_GridCellsMatchEdges ==
    Resolved =>
        /\ ShowsGrid
        /\ Len(view[1].products.grid) = 1
        /\ Len(Grid.cells) = Len(ResultEdges)
        /\ \A i \in 1..Len(ResultEdges) :
              /\ Grid.cells[i].name = ResultEdges[i].node.name
              /\ Grid.cells[i].price = "$4.50"
        /\ Grid.numColumns = 2
        /\ \A r \in 1..Len(Grid.rows) :
              /\ Len(Grid.rows[r]) \in 1..2
              /\ \A k \in 1..Len(Grid.rows[r]) :
                    Grid.rows[r][k] = Grid.cells[(r - 1) * 2 + k]
        /\ Len(Grid.rows) = (Len(ResultEdges) + 1) \div 2

C2_Witness ==
    /\ Resolved
    /\ Len(ResultEdges) = 2
    /\ ResultEdges[1].node.name /= ResultEdges[2].node.name
    /\ Len(Grid.cells) = 2

\* C3: after the request fails the component keeps rendering the loading
\* text and never crashes.
C3_FailedStaysLoading ==
    result.error => (phase = "mounted" /\ ShowsLoading)

\* C4: for a resolved result the key of each rendered item is that record's
\* node id, and the keys of the rendered items are pairwise distinct.
C4_KeysAreUniqueIds ==
    Resolved =>
        /\ ShowsGrid
        /\ Len(Grid.keys) = Len(ResultEdges)
        /\ \A i \in 1..Len(ResultEdges) : Grid.keys[i] = ResultEdges[i].node.id
        /\ \A i, j \in 1..Len(Grid.keys) : i /= j => Grid.keys[i] /= Grid.keys[j]

C4_Witness ==
    /\ Resolved
    /\ ShowsGrid
    /\ Len(Grid.keys) = 2
    /\ ResultEdges[1].node.name = ResultEdges[2].node.name

\* C5 as stated: every mounted Products has issued exactly one request.
C5_ExactlyOnePerMount ==
    phase = "mounted" => reqThisMount = 1

\* C5 as amended: a mount issues at most one request, exactly one on the
\* first mount and none when it finds the result in the client's cache; no
\* later render, data arrival or failure of that mount issues another.
C5_AtMostOnePerMount ==
    /\ [](phase \in {"mounted", "crashed"} =>
            /\ reqThisMount <= 1
            /\ (mounts = 1 => reqThisMount = 1 /\ Len(requests) = 1)
            /\ (~missAtMount => reqThisMount = 0))
    /\ [][phase = "mounted" => requests' = requests]_vars

C5_Witness ==
    /\ phase = "mounted"
    /\ renders = 2
    /\ ~result.loading
    /\ reqThisMount = 1
    /\ Len(requests) = 2

\* C6: the header (its text, on blue) is on screen exactly once in every UI
\* state after the mount, whatever the state of Products (pending, loaded,
\* failed).
C6_HeaderAlwaysOnce ==
    phase \in {"mounted", "crashed"} =>
        /\ Shown
        /\ Len(view[1].header) = 1
        /\ view[1].header[1].text = "React Native Demo Home Page"
        /\ view[1].header[1].backgroundColor = "blue"

\* C7: every request sent, over all renders and mounts, is the same query
\* with page size 10 and channel "default-channel" and the same fields, sent
\* to the one fixed URL.
C7_RequestsAreFixed ==
    \A i \in 1..Len(requests) :
        /\ requests[i].uri = "https://demo.saleor.io/graphql/"
        /\ requests[i].query.operation = "query"
        /\ requests[i].query.first = 10
        /\ requests[i].query.channel = "default-channel"
        /\ requests[i].query.fields = {"id", "name", "description", "thumbnail.url"}
        /\ requests[i] = requests[1]

C7_Witness ==
    /\ Len(requests) = 2
    /\ mounts = 2
    /\ renders = 1

\* C8: exactly one client is ever constructed, before the tree mounts, with
\* the fixed URL and an empty cache, and every render of App hands that
\* instance to its descendants.
C8_OneClient ==
    /\ phase = "start" => (constructed = <<>> /\ ~Shown /\ mounts = 0)
    /\ phase /= "start" =>
          /\ Len(constructed) = 1
          /\ constructed[1].uri = "https://demo.saleor.io/graphql/"
          /\ ~constructed[1].cache.defined
          /\ client = constructed[1].id
    /\ Shown => view[1].provider = constructed[1].id

C8_Witness ==
    /\ Shown
    /\ mounts = 2
    /\ renders = 2
    /\ view[1].provider = 1

Occurs(e) == {i \in 1..Len(log) : log[i] = e}

\* Every occurrence of b has an occurrence of a before it.
Before(a, b) == \A j \in Occurs(b) : \E i \in Occurs(a) : i < j

FirstRun == <<"construct", "mount", "dispatch", "renderLoading", "arrive",
              "renderGrid">>

\* C9: the events of a run come in the order client construction, mount,
\* query dispatch, pending render, data arrival, render of the grid; when the
\* data has arrived the grid is rendered; and once the grid has been rendered
\* the loading text is never rendered again.
C9_OrderAndOneWay ==
    /\ Before("construct", "mount")
    /\ Before("mount", "dispatch")
    /\ Before("dispatch", "renderLoading")
    /\ Before("renderLoading", "arrive")
    /\ Before("arrive", "renderGrid")
    /\ Cardinality(Occurs("construct")) <= 1
    /\ \A n \in 1..Min(Len(log), 4) : log[n] = FirstRun[n]
    /\ \A j \in Occurs("arrive") : j < Len(log) /\ log[j + 1] = "renderGrid"
    /\ (phase = "mounted" /\ cache.defined) => (ShowsGrid /\ ~ShowsLoading)
    /\ \A i \in Occurs("renderGrid") : \A j \in Occurs("renderLoading") : j < i

C9_Witness ==
    /\ Len(log) >= 9
    /\ SubSeq(log, 1, 6) = FirstRun
    /\ log[Len(log)] = "renderGrid"
    /\ mounts = 2

\* C10: whenever Products takes the non-loading branch the query's data is
\* defined, for the resolved and for the failed outcome of the request.
C10_NonLoadingHasData ==
    (phase \in {"mounted", "crashed"} /\ ~result.loading) => result.data.defined

====
